---- MODULE Spec2Model ----
(***************************************************************************)
(* Model of olympiabhub.api.OlympiaAPI: construction, the request wrapper  *)
(* _make_request and the six public operations built on it.                *)
(*                                                                         *)
(* Every public operation is one atomic action (the client is synchronous  *)
(* and single threaded).  The answer of the transport (requests) to the    *)
(* single session.request(...) of a call is an input of the action: either *)
(* a response (status, body text) or one of the exceptions of              *)
(* requests.exceptions, with its base classes.                             *)
(***************************************************************************)
EXTENDS Integers, Sequences, FiniteSets, TLC

VARIABLES
    client,         \* the OlympiaAPI object (NoClient before construction)
    last,           \* the latest call: operation, arguments, what it did
    request_calls,  \* invocations of _make_request so far
    net_calls,      \* outbound session.request(...) calls so far
    open_sessions,  \* sessions opened by a call and still open after it
    proxied         \* an earlier call of this client went through the proxy

vars == <<client, last, request_calls, net_calls, open_sessions, proxied>>

-----------------------------------------------------------------------------
(* Bounds *)

\* number of _make_request invocations explored in one behaviour
MaxCalls == 2
\* longest `texts` argument handed to the embedding operations
MaxLen == 2

-----------------------------------------------------------------------------
(* Python values *)

\* Python's None (absent argument, unset environment variable)
None == "<None>"

\* truth value of an optional string: None and "" are falsy
Truthy(v) == v # None /\ v # ""

\* Python's `a or b`
Or(a, b) == IF Truthy(a) THEN a ELSE b

-----------------------------------------------------------------------------
(* JSON values.  All values have the same shape so that they can be        *)
(* compared: t is the JSON type, members the key/value pairs of an object, *)
(* items the elements of an array (or the one string of a string).         *)

JNull == [t |-> "null", members |-> {}, items |-> <<>>]
JStr(s) == [t |-> "string", members |-> {}, items |-> <<s>>]
JArray(seq) == [t |-> "array", members |-> {}, items |-> seq]
JObject(pairs) == [t |-> "object", members |-> pairs, items |-> <<>>]
Member(k, v) == [k |-> k, v |-> v]

\* response body texts the server answers with
BodyModels == "{\"modèles\": [\"m1\", \"m2\"]}"
BodyOk == "{\"response\": \"ok\"}"
BodyList == "[\"m1\"]"
BodyEmpty == ""

Bodies == {BodyModels, BodyOk, BodyList, BodyEmpty}

\* response.json(): the parsed value of a body text, or a decoding failure
ResponseJson(text) ==
    CASE text = BodyModels ->
           [ok |-> TRUE, v |-> JObject({Member("modèles", JArray(<<"m1", "m2">>))})]
      [] text = BodyOk ->
           [ok |-> TRUE, v |-> JObject({Member("response", JStr("ok"))})]
      [] text = BodyList ->
           [ok |-> TRUE, v |-> JArray(<<"m1">>)]
      [] OTHER ->
           [ok |-> FALSE, v |-> JNull]

\* Python's value[key] for a string key on a parsed JSON value
GetItem(value, key) ==
    IF value.t # "object"
    THEN [raised |-> "TypeError", v |-> JNull]
    ELSE IF \E m \in value.members : m.k = key
         THEN [raised |-> None,
               v |-> (CHOOSE m \in value.members : m.k = key).v]
         ELSE [raised |-> "KeyError", v |-> JNull]

-----------------------------------------------------------------------------
(* The transport: what session.request(...) answers *)

\* final HTTP statuses the server answers with (1xx, 2xx, 3xx, 4xx, 5xx)
Statuses == {101, 200, 304, 400, 503}

\* exceptions of requests.exceptions the transport raises
TransportExceptions ==
    {"ConnectionError", "SSLError", "ConnectTimeout", "ReadTimeout",
     "TooManyRedirects"}

\* class raised by response.json() on an undecodable body: a
\* RequestException in current releases of requests, the plain JSON
\* decoder's ValueError in older ones
JsonErrorClasses == {"requests.JSONDecodeError", "json.JSONDecodeError"}

\* the classes an exception is an instance of (requests.exceptions hierarchy)
Bases(exc) ==
    CASE exc = "ConnectionError" -> {"ConnectionError", "RequestException"}
      [] exc = "SSLError" -> {"SSLError", "ConnectionError", "RequestException"}
      [] exc = "ConnectTimeout" ->
           {"ConnectTimeout", "ConnectionError", "Timeout", "RequestException"}
      [] exc = "ReadTimeout" -> {"ReadTimeout", "Timeout", "RequestException"}
      [] exc = "TooManyRedirects" -> {"TooManyRedirects", "RequestException"}
      [] exc = "HTTPError" -> {"HTTPError", "RequestException"}
      [] exc = "requests.JSONDecodeError" ->
           {"requests.JSONDecodeError", "InvalidJSONError", "RequestException"}
      [] exc = "json.JSONDecodeError" -> {"json.JSONDecodeError", "ValueError"}
      [] OTHER -> {exc}

\* json_error is the class response.json() raises on this response, should
\* the code call it on an undecodable body
NetResponse(status, body, json_error) ==
    [kind |-> "response", status |-> status, body |-> body, exc |-> None,
     json_error |-> json_error]
NetException(exc) ==
    [kind |-> "exception", status |-> 0, body |-> "", exc |-> exc,
     json_error |-> None]
NoNet == [kind |-> "none", status |-> 0, body |-> "", exc |-> None, json_error |-> None]

\* an error check that lets client errors through
RaisesForServerError(status) == 500 <= status /\ status < 600

\* response.raise_for_status(): HTTPError for 4xx and 5xx only
RaisesForStatus(status) == 400 <= status /\ status < 600

\* truth value of a Response object (Response.__bool__ is Response.ok)
ResponseTruthy(status) == ~RaisesForStatus(status)

NetOutcomes ==
    {NetResponse(s, b, None) : s \in Statuses, b \in {x \in Bodies : ResponseJson(x).ok}}
      \cup {NetResponse(s, b, je) : s \in Statuses,
                                    b \in {x \in Bodies : ~ResponseJson(x).ok},
                                    je \in JsonErrorClasses}
      \cup {NetException(e) : e \in TransportExceptions}

-----------------------------------------------------------------------------
(* OlympiaAPI.__init__ *)

BaseUrl == "https://api.olympia.bhub.cloud"
UserAgent ==
    "Mozilla/5.0 (Windows NT 10.0; Win64; x64; rv:102.0) Gecko/20100101 Firefox/102.0"
ModelName == "test_model"

NoClient == [built |-> FALSE, token |-> None, model |-> None, base_url |-> None,
             nubonyxia_proxy |-> None, nubonyxia_user_agent |-> None]

\* the two environment variables consulted in the other order
ResolveTokenSwapped(token, env_key, env_token) == Or(Or(token, env_token), env_key)

\* token or os.getenv("OLYMPIA_API_KEY") or os.getenv("OLYMPIA_API_TOKEN")
ResolveToken(token, env_key, env_token) == Or(Or(token, env_key), env_token)

\* proxy or os.getenv("PROXY")
ResolveProxy(proxy, env_proxy) == Or(proxy, env_proxy)

\* the object __init__ leaves behind; NoClient when it raises
Construct(model, token, proxy, env_key, env_token, env_proxy) ==
    LET tok == ResolveToken(token, env_key, env_token) IN
    IF ~Truthy(tok)
    THEN NoClient
    ELSE [built |-> TRUE, token |-> tok, model |-> model, base_url |-> BaseUrl,
          nubonyxia_proxy |-> ResolveProxy(proxy, env_proxy),
          nubonyxia_user_agent |-> UserAgent]

\* _get_headers
GetHeaders(self) ==
    [accept |-> "application/json",
     Authorization |-> "Bearer " \o self.token,
     ContentType |-> "application/json"]

-----------------------------------------------------------------------------
(* OlympiaAPI._make_request *)

NoData == [has |-> FALSE, model |-> None, prompt |-> None, texts |-> <<>>]
PromptData(model, prompt) ==
    [has |-> TRUE, model |-> model, prompt |-> prompt, texts |-> <<>>]
TextsData(model, texts) ==
    [has |-> TRUE, model |-> model, prompt |-> None, texts |-> texts]

\* proxy routing that ignores the flag of the call
ProxyAlways(self, use_proxy) == Truthy(self.nubonyxia_proxy)

\* the `if use_proxy and self.nubonyxia_proxy` of _make_request
ProxyConfigured(self, use_proxy) == use_proxy /\ Truthy(self.nubonyxia_proxy)

\* a wrapper that sends the request a second time
DispatchedTwice(self, method, url, data) ==
    LET q == [method |-> method, url |-> url,
              headers |-> [accept |-> "application/json",
                           Authorization |-> "Bearer " \o self.token,
                           ContentType |-> "application/json"],
              json |-> data]
    IN << q, q >>

\* the outbound requests of the try block: one session.request(...)
Dispatched(self, method, url, data) ==
    << [method |-> method, url |-> url, headers |-> GetHeaders(self), json |-> data] >>

\* whether the call closes the session it opens: the module-level
\* requests.request runs inside `with sessions.Session()`, the
\* requests.Session() of the proxy branch is never closed
SessionClosed(use_proxy) == ~use_proxy

LogEntry(prefix, has_response, text) ==
    [prefix |-> prefix, has_response |-> has_response, response |-> text]

\* the except clauses of _make_request, in source order
ExceptClauses ==
    << [catches |-> "ConnectionError", raises |-> "ConnectionError",
        prefix |-> "Connection error"],
       [catches |-> "Timeout", raises |-> "TimeoutError",
        prefix |-> "Timeout error"],
       [catches |-> "HTTPError", raises |-> "ValueError",
        prefix |-> "HTTP error"],
       [catches |-> "RequestException", raises |-> "RuntimeError",
        prefix |-> "Request error"] >>

\* indexes of the clauses that match an exception
Matching(exc) ==
    {i \in DOMAIN ExceptClauses : ExceptClauses[i].catches \in Bases(exc)}

\* the exception the try block ends with (None when it returns)
TryRaises(net) ==
    IF net.kind = "exception" THEN net.exc
    ELSE IF RaisesForStatus(net.status) THEN "HTTPError"
    ELSE IF ~ResponseJson(net.body).ok THEN net.json_error
    ELSE None

\* the text the HTTPError clause logs after "Response:"
LoggedResponse(net) ==
    IF ResponseTruthy(net.status) THEN net.body ELSE "No response"

\* outcome of the try/except of _make_request
Handle(net) ==
    LET exc == TryRaises(net) IN
    IF exc = None
    THEN [returned |-> TRUE, value |-> ResponseJson(net.body).v,
          raised |-> None, log |-> <<>>]
    ELSE IF Matching(exc) = {}
    THEN [returned |-> FALSE, value |-> JNull, raised |-> exc, log |-> <<>>]
    ELSE LET i == CHOOSE j \in Matching(exc) : \A k \in Matching(exc) : j <= k
             c == ExceptClauses[i]
         IN [returned |-> FALSE, value |-> JNull, raised |-> c.raises,
             log |-> << IF c.catches = "HTTPError"
                        THEN LogEntry(c.prefix, TRUE, LoggedResponse(net))
                        ELSE LogEntry(c.prefix, FALSE, "") >>]

MakeRequest(self, method, endpoint, data, use_proxy, net) ==
    LET url == self.base_url \o "/" \o endpoint
        h == Handle(net)
    IN [made_request |-> TRUE,
        method |-> method, url |-> url, data |-> data,
        use_proxy |-> use_proxy,
        session |-> IF use_proxy THEN "Session" ELSE "requests",
        proxies |-> IF ProxyConfigured(self, use_proxy)
                    THEN self.nubonyxia_proxy ELSE None,
        proxy_user_agent |-> IF ProxyConfigured(self, use_proxy)
                             THEN self.nubonyxia_user_agent ELSE None,
        sent |-> Dispatched(self, method, url, data),
        net |-> net,
        returned |-> h.returned, value |-> h.value, raised |-> h.raised,
        log |-> h.log,
        lookup |-> FALSE,
        opened |-> 1,
        closed |-> IF SessionClosed(use_proxy) THEN 1 ELSE 0]

\* a call that ends before _make_request is entered
NoRequest(raised) ==
    [made_request |-> FALSE,
     method |-> None, url |-> None, data |-> NoData,
     use_proxy |-> FALSE, session |-> None,
     proxies |-> None, proxy_user_agent |-> None,
     sent |-> <<>>, net |-> NoNet,
     returned |-> raised = None, value |-> JNull, raised |-> raised,
     log |-> <<>>, lookup |-> FALSE, opened |-> 0, closed |-> 0]

-----------------------------------------------------------------------------
(* Public operations, as functions of their arguments and of the answer    *)
(* of the transport                                                        *)

StrElem(s) == [type |-> "str", v |-> s]
IntElem(s) == [type |-> "int", v |-> s]

\* isinstance(text, str)
IsStr(text) == text.type = "str"

\* a validation that only rejects the empty list
NonEmptyTexts(texts) == texts # <<>>

\* the negation of `not texts or not all(isinstance(text, str) ...)`
ValidTexts(texts) ==
    texts # <<>> /\ \A i \in DOMAIN texts : IsStr(texts[i])

DoChat(self, prompt, net) ==
    MakeRequest(self, "POST", "generate", PromptData(self.model, prompt), FALSE, net)

DoChatNubonyxia(self, prompt, net) ==
    MakeRequest(self, "POST", "generate", PromptData(self.model, prompt), TRUE, net)

\* a transliterated key
ModelsKeyAscii == "modeles"

\* the literal key of the upstream API for model lists
ModelsKey == "modèles"

\* the [ModelsKey] subscript applied to what _make_request returned
Subscript(r) ==
    IF ~r.returned THEN r
    ELSE LET g == GetItem(r.value, ModelsKey) IN
         [r EXCEPT !.lookup = TRUE, !.returned = (g.raised = None),
                   !.value = g.v, !.raised = g.raised]

DoGetLlmModels(self, use_proxy, net) ==
    Subscript(MakeRequest(self, "GET", "modeles", NoData, use_proxy, net))

DoGetEmbeddingModels(self, use_proxy, net) ==
    Subscript(MakeRequest(self, "GET", "embedding/models", NoData, use_proxy, net))

-----------------------------------------------------------------------------
(* Inputs *)

TokenArgs == {None, "", "tok-arg"}
EnvKeys == {None, "tok-key"}
EnvTokens == {None, "tok-token"}
ProxyArgs == {None, "proxy.arg:3128"}
EnvProxies == {None, ""}
Prompts == {"hi"}
TextElems == {StrElem("a"), IntElem("2")}
Texts == UNION {[1..n -> TextElems] : n \in 0..MaxLen}

NoArgs == [token |-> None, env_key |-> None, env_token |-> None,
           proxy |-> None, env_proxy |-> None,
           prompt |-> None, texts |-> <<>>, use_proxy |-> FALSE]

-----------------------------------------------------------------------------
(* State machine *)

Init ==
    /\ client = NoClient
    /\ last = [op |-> "none", args |-> NoArgs, r |-> NoRequest(None)]
    /\ request_calls = 0
    /\ net_calls = 0
    /\ open_sessions = 0
    /\ proxied = FALSE

\* OlympiaAPI(model, token, proxy) under an environment
New ==
    \E token \in TokenArgs, env_key \in EnvKeys, env_token \in EnvTokens,
       proxy \in ProxyArgs, env_proxy \in EnvProxies :
        LET c == Construct(ModelName, token, proxy, env_key, env_token, env_proxy) IN
        /\ client' = c
        /\ last' = [op |-> "__init__",
                    args |-> [NoArgs EXCEPT !.token = token, !.env_key = env_key,
                                            !.env_token = env_token, !.proxy = proxy,
                                            !.env_proxy = env_proxy],
                    r |-> NoRequest(IF c.built THEN None ELSE "ValueError")]
        /\ proxied' = FALSE
        /\ UNCHANGED <<request_calls, net_calls, open_sessions>>

\* bookkeeping common to the public operations.  A session the call left
\* unclosed is still open when the call ends, unless the runtime happens to
\* have collected it by then.
Finish(op, args, r) ==
    /\ last' = [op |-> op, args |-> args, r |-> r]
    /\ request_calls' = request_calls + (IF r.made_request THEN 1 ELSE 0)
    /\ net_calls' = net_calls + Len(r.sent)
    /\ open_sessions' \in {open_sessions, open_sessions + r.opened - r.closed}
    /\ proxied' = (proxied \/ r.proxies # None)
    /\ UNCHANGED client

Ready == client.built /\ request_calls < MaxCalls

Chat ==
    /\ Ready
    /\ \E prompt \in Prompts, net \in NetOutcomes :
         Finish("Chat", [NoArgs EXCEPT !.prompt = prompt],
                DoChat(client, prompt, net))

ChatNubonyxia ==
    /\ Ready
    /\ \E prompt \in Prompts, net \in NetOutcomes :
         Finish("ChatNubonyxia", [NoArgs EXCEPT !.prompt = prompt, !.use_proxy = TRUE],
                DoChatNubonyxia(client, prompt, net))

create_embedding ==
    /\ Ready
    /\ \E texts \in Texts :
         LET args == [NoArgs EXCEPT !.texts = texts] IN
         IF ~ValidTexts(texts)
         THEN Finish("create_embedding", args, NoRequest("ValueError"))
         ELSE \E net \in NetOutcomes :
                Finish("create_embedding", args,
                       MakeRequest(client, "POST", "embedding",
                                   TextsData(client.model, texts), FALSE, net))

create_embedding_nubonyxia ==
    /\ Ready
    /\ \E texts \in Texts :
         LET args == [NoArgs EXCEPT !.texts = texts, !.use_proxy = TRUE] IN
         IF ~ValidTexts(texts)
         THEN Finish("create_embedding_nubonyxia", args, NoRequest("ValueError"))
         ELSE \E net \in NetOutcomes :
                Finish("create_embedding_nubonyxia", args,
                       MakeRequest(client, "POST", "embedding",
                                   TextsData(client.model, texts), TRUE, net))

get_llm_models ==
    /\ Ready
    /\ \E use_proxy \in BOOLEAN, net \in NetOutcomes :
         Finish("get_llm_models", [NoArgs EXCEPT !.use_proxy = use_proxy],
                DoGetLlmModels(client, use_proxy, net))

get_embedding_models ==
    /\ Ready
    /\ \E use_proxy \in BOOLEAN, net \in NetOutcomes :
         Finish("get_embedding_models", [NoArgs EXCEPT !.use_proxy = use_proxy],
                DoGetEmbeddingModels(client, use_proxy, net))

Next ==
    \/ New
    \/ Chat
    \/ ChatNubonyxia
    \/ create_embedding
    \/ create_embedding_nubonyxia
    \/ get_llm_models
    \/ get_embedding_models

Spec == Init /\ [][Next]_vars

TypeOK ==
    /\ client.built \in BOOLEAN
    /\ request_calls \in 0..MaxCalls
    /\ net_calls \in Nat
    /\ open_sessions \in Nat
    /\ proxied \in BOOLEAN

-----------------------------------------------------------------------------
(* Vocabulary of the properties *)

BodyOps == {"Chat", "ChatNubonyxia", "create_embedding", "create_embedding_nubonyxia"}
ListOps == {"get_llm_models", "get_embedding_models"}
EmbeddingOps == {"create_embedding", "create_embedding_nubonyxia"}

Is2xx(status) == 200 <= status /\ status <= 299
Is4xx5xx(status) == 400 <= status /\ status <= 599

\* the latest call reached the server and got a response
Answered == last.r.made_request /\ last.r.net.kind = "response"

\* the call asked for the proxy: the two Nubonyxia operations, and the
\* list operations when their flag is set
AskedProxy ==
    \/ last.op \in {"ChatNubonyxia", "create_embedding_nubonyxia"}
    \/ last.op \in ListOps /\ last.args.use_proxy

HasProxy == client.nubonyxia_proxy # None /\ client.nubonyxia_proxy # ""

-----------------------------------------------------------------------------
(* C1 *)

\* C1 (as stated): for every public operation and every status, a 2xx
\* answer makes the call return the parsed JSON body unchanged and any other
\* status (1xx, 3xx, 4xx, 5xx) makes it fail with ValueError.
C1_AsStated ==
    Answered =>
        IF Is2xx(last.r.net.status)
        THEN /\ last.r.returned
             /\ ResponseJson(last.r.net.body).ok
             /\ last.r.value = ResponseJson(last.r.net.body).v
        ELSE ~last.r.returned /\ last.r.raised = "ValueError"

\* C1 (amended): a 4xx or 5xx answer makes every operation fail with
\* ValueError and return nothing; an answer with any status below 400 (every
\* 2xx, and 1xx and 3xx as well) whose body is valid JSON makes Chat,
\* ChatNubonyxia, create_embedding and create_embedding_nubonyxia return the
\* parsed body unchanged, and makes the two list operations return the value
\* under "modèles" when the body is an object that has this key.
C1_StatusContract ==
    Answered =>
        LET s == last.r.net.status
            j == ResponseJson(last.r.net.body)
        IN /\ Is4xx5xx(s) => ~last.r.returned /\ last.r.raised = "ValueError"
           /\ (~Is4xx5xx(s) /\ j.ok /\ last.op \in BodyOps) =>
                 last.r.returned /\ last.r.raised = None /\ last.r.value = j.v
           /\ (~Is4xx5xx(s) /\ j.ok /\ last.op \in ListOps
                 /\ \E m \in j.v.members : m.k = "modèles") =>
                 /\ last.r.returned
                 /\ \E m \in j.v.members : m.k = "modèles" /\ last.r.value = m.v

C1_Witness ==
    /\ last.op = "ChatNubonyxia"
    /\ Answered
    /\ last.r.net.status = 400
    /\ last.r.net.body = BodyOk
    /\ last.r.raised = "ValueError"

C1_WitnessRedirect ==
    /\ last.op = "Chat"
    /\ Answered
    /\ last.r.net.status = 304
    /\ last.r.returned

-----------------------------------------------------------------------------
(* C2 *)

\* C2: every transport failure is classified by its cause: a failure to
\* reach the host raises ConnectionError, a timeout (while connecting or
\* while reading) raises TimeoutError, any other transport exception raises
\* RuntimeError; no timeout is reported as ConnectionError or RuntimeError.
C2_Classification ==
    (last.r.made_request /\ last.r.net.kind = "exception") =>
        LET e == last.r.net.exc IN
        /\ e \in {"ConnectTimeout", "ReadTimeout"} => last.r.raised = "TimeoutError"
        /\ e \in {"ConnectionError", "SSLError"} => last.r.raised = "ConnectionError"
        /\ e = "TooManyRedirects" => last.r.raised = "RuntimeError"

-----------------------------------------------------------------------------
(* C3 *)

\* C3: create_embedding and create_embedding_nubonyxia fail with ValueError
\* and send nothing when texts is empty or holds a non-string; they enter
\* _make_request (and send) exactly when texts is a non-empty sequence of
\* strings.
C3_Validation ==
    last.op \in EmbeddingOps =>
        LET texts == last.args.texts
            bad == texts = <<>> \/ \E i \in DOMAIN texts : texts[i].type # "str"
        IN /\ bad => /\ last.r.raised = "ValueError"
                     /\ ~last.r.made_request
                     /\ last.r.sent = <<>>
           /\ ~bad => last.r.made_request /\ Len(last.r.sent) >= 1
           /\ last.r.made_request => last.r.data.texts = texts

C3_Witness ==
    /\ last.op = "create_embedding"
    /\ last.args.texts = <<StrElem("a"), IntElem("2")>>
    /\ last.r.raised = "ValueError"
    /\ last.r.sent = <<>>

-----------------------------------------------------------------------------
(* C4 *)

\* the first of three optional strings that is neither None nor empty
FirstNonEmpty(a, b, c) ==
    IF a # None /\ a # "" THEN a
    ELSE IF b # None /\ b # "" THEN b
    ELSE IF c # None /\ c # "" THEN c
    ELSE None

\* C4: construction takes as token the first non-empty value among the
\* token argument, OLYMPIA_API_KEY and OLYMPIA_API_TOKEN, fails with
\* ValueError exactly when there is none, sends nothing, and every
\* constructed client holds a non-empty token.
C4_TokenResolution ==
    /\ client.built => client.token # None /\ client.token # ""
    /\ last.op = "__init__" =>
         LET t == FirstNonEmpty(last.args.token, last.args.env_key, last.args.env_token)
         IN /\ (t = None) <=> (last.r.raised = "ValueError")
            /\ (t = None) <=> ~client.built
            /\ client.built => client.token = t
            /\ last.r.sent = <<>>

C4_Witness ==
    /\ last.op = "__init__"
    /\ last.args.token = ""
    /\ last.args.env_key = "tok-key"
    /\ last.args.env_token = "tok-token"
    /\ client.built
    /\ client.token = "tok-key"

-----------------------------------------------------------------------------
(* C5 *)

\* C5: a request goes through the configured proxy, with the browser
\* user-agent on the proxy connection, if and only if the call asked for
\* the proxy and a proxy address is configured; otherwise it goes direct,
\* whatever earlier calls did, and a call that asks for the proxy when none
\* is configured is sent direct without an error of its own.
C5_ProxyRouting ==
    last.r.made_request =>
        /\ (last.r.proxies # None) <=> (AskedProxy /\ HasProxy)
        /\ last.r.proxies # None =>
             /\ last.r.proxies = client.nubonyxia_proxy
             /\ last.r.proxy_user_agent =
                  "Mozilla/5.0 (Windows NT 10.0; Win64; x64; rv:102.0) Gecko/20100101 Firefox/102.0"
        /\ last.r.proxies = None => last.r.proxy_user_agent = None
        /\ Len(last.r.sent) >= 1

C5_Witness ==
    /\ proxied
    /\ HasProxy
    /\ last.op = "Chat"
    /\ last.r.made_request
    /\ last.r.proxies = None

C5_WitnessSkipped ==
    /\ ~HasProxy
    /\ last.op = "ChatNubonyxia"
    /\ last.r.made_request
    /\ last.r.proxies = None
    /\ last.r.returned

-----------------------------------------------------------------------------
(* C6 *)

\* C6: get_embedding_models sends its GET request to
\* https://api.olympia.bhub.cloud/embedding/modeles.
C6_EmbeddingModelsUrl ==
    (last.op = "get_embedding_models" /\ last.r.made_request) =>
        /\ last.r.method = "GET"
        /\ Len(last.r.sent) >= 1
        /\ \A i \in DOMAIN last.r.sent :
             last.r.sent[i].url = "https://api.olympia.bhub.cloud/embedding/modeles"

-----------------------------------------------------------------------------
(* C7 *)

TypedFailures == {"ConnectionError", "TimeoutError", "ValueError", "RuntimeError"}

C7_WitnessMissingKey ==
    /\ last.op = "get_embedding_models"
    /\ last.r.net.kind = "response"
    /\ last.r.net.status = 200
    /\ last.r.net.body = BodyOk
    /\ last.r.raised = "KeyError"

-----------------------------------------------------------------------------
(* C8 *)

\* C8: when _make_request fails on a non-2xx response that has a body, the
\* log entry written before the failure is raised contains the body text of
\* that response, not a placeholder, and the failure is raised.
C8_LogsResponseBody ==
    (Answered /\ last.r.raised = "ValueError" /\ ~last.r.lookup
       /\ ~Is2xx(last.r.net.status) /\ last.r.net.body # "") =>
        /\ Len(last.r.log) = 1
        /\ last.r.log[1].has_response
        /\ last.r.log[1].response = last.r.net.body
        /\ ~last.r.returned

-----------------------------------------------------------------------------
(* C9 *)

\* C9: after any call has returned or raised, no session or connection
\* opened by it is still open: the number of open transport resources is
\* zero between calls.
C9_NoOpenSessions == open_sessions = 0

-----------------------------------------------------------------------------
(* C10 *)

C10_Step == [][net_calls' <= net_calls + 1]_vars

====
